---- MODULE Spec2Model ----
(***************************************************************************)
(* State-machine model of src/src/RatedCapacity.tsx: the RatedCapacity     *)
(* React component (installed capacity / PLF table with a one-row snapshot *)
(* CSV and localStorage persistence, and the historical-capacity card with *)
(* a monthly CSV and a start/end month selection).                         *)
(*                                                                         *)
(* Text is modelled as a sequence of one-character strings, so that the    *)
(* regular expression, split("/"), Number() and padStart() of the source   *)
(* are computed and not assumed.  Capacity quantities are held in          *)
(* thousandths (fixed point), month and year numbers as plain integers.    *)
(***************************************************************************)
EXTENDS Integers, Sequences, FiniteSets, TLC

VARIABLES
    installed,           \* useState installed: Record<SourceKey, number>
    plf,                 \* useState plf
    capacityCsvMissing,  \* useState capacityCsvMissing
    capacityCsvMsg,      \* useState capacityCsvMsg
    history,             \* useState history: MonthRow[]
    historyError,        \* useState historyError
    startMonth,          \* useState startMonth ("" is <<>>)
    endMonth,            \* useState endMonth
    localStorage,        \* the two localStorage keys
    closureInstalled,    \* `installed` as captured by the mount effect's closure
    mounted,             \* the component is mounted
    capCancelled,        \* `cancelled` of the Capacity.csv effect
    histCancelled,       \* `cancelled` of the capacity.csv effect
    capPc,               \* position of loadCapacitySingleRow
    histPc,              \* position of loadHistory
    pending,             \* effects whose dependencies changed in the last render
    edits,               \* number of input edits so far (bounded)
    call                 \* a helper applied on its own: [fn, args, result]

vars == <<installed, plf, capacityCsvMissing, capacityCsvMsg, history, historyError,
          startMonth, endMonth, localStorage, closureInstalled, mounted,
          capCancelled, histCancelled, capPc, histPc, pending, edits, call>>

-----------------------------------------------------------------------------
(* Bounds of the model *)

\* longest monthly CSV, in data lines
MaxRows == 2

\* most input edits in one session
MaxEdits == 1

\* longest list of options given to clampMonthKeyToOptions on its own
MaxOptions == 3

-----------------------------------------------------------------------------
(* Values of the JavaScript runtime *)

Null == "null"

\* the value `undefined`, told apart from every text
Undefined == <<"undefined">>

DIGITS == <<"0", "1", "2", "3", "4", "5", "6", "7", "8", "9">>

IsDigit(c) == \E i \in 1..10 : DIGITS[i] = c

DigitVal(c) == (CHOOSE i \in 1..10 : DIGITS[i] = c) - 1

AllDigits(s) == \A i \in 1..Len(s) : IsDigit(s[i])

RECURSIVE DigitsVal(_)
\* value of a run of decimal digits
DigitsVal(s) ==
    IF Len(s) = 0 THEN 0
    ELSE 10 * DigitsVal(SubSeq(s, 1, Len(s) - 1)) + DigitVal(s[Len(s)])

\* Number(text) is not NaN, for the integer texts of a month key
IsIntText(s) ==
    \/ AllDigits(s)
    \/ Len(s) > 1 /\ s[1] = "-" /\ AllDigits(Tail(s))

\* Number(text) for the integer texts of a month key: "" is 0, digits (with an
\* optional sign) are their value
NumberInt(s) ==
    IF Len(s) > 0 /\ s[1] = "-" THEN 0 - DigitsVal(Tail(s)) ELSE DigitsVal(s)

RECURSIVE NatToStr(_)
NatToStr(n) ==
    IF n < 10 THEN <<DIGITS[n + 1]>>
    ELSE NatToStr(n \div 10) \o <<DIGITS[(n % 10) + 1]>>

\* String(n) of an integer
ToStr(n) == IF n < 0 THEN <<"-">> \o NatToStr(0 - n) ELSE NatToStr(n)

RECURSIVE PadStart(_, _, _)
\* s.padStart(width, ch)
PadStart(s, width, ch) == IF Len(s) >= width THEN s ELSE PadStart(<<ch>> \o s, width, ch)

\* index of the first c in s, 0 if there is none
IndexOf(s, c) ==
    IF \E i \in 1..Len(s) : s[i] = c
    THEN CHOOSE i \in 1..Len(s) : s[i] = c /\ \A j \in 1..(i - 1) : s[j] # c
    ELSE 0

RECURSIVE Split(_, _)
\* s.split(c)
Split(s, c) ==
    LET i == IndexOf(s, c)
    IN  IF i = 0 THEN <<s>>
        ELSE <<SubSeq(s, 1, i - 1)>> \o Split(SubSeq(s, i + 1, Len(s)), c)

\* the element at 0-based position i of an array, undefined past its end
At(arr, i) == IF i >= 0 /\ i < Len(arr) THEN arr[i + 1] ELSE Undefined

-----------------------------------------------------------------------------
(* Module-level helpers of the source *)

SOURCES ==
    <<"Coal", "Oil & Gas", "Nuclear", "Hydro", "Solar", "Wind", "Small-Hydro", "Bio Power">>

SourceSet == {SOURCES[i] : i \in 1..Len(SOURCES)}

\* the parts of a capacity text: sign, integer digits, fraction digits
NumParts(s) ==
    LET neg  == Len(s) > 0 /\ s[1] = "-"
        body == IF neg THEN Tail(s) ELSE s
        dot  == IndexOf(body, ".")
    IN  [neg |-> neg,
         ip  |-> IF dot = 0 THEN body ELSE SubSeq(body, 1, dot - 1),
         fp  |-> IF dot = 0 THEN <<>> ELSE SubSeq(body, dot + 1, Len(body))]

\* Number(x) is a finite number: "" or [-]digits[.digits]
IsNumText(s) ==
    LET p == NumParts(s)
    IN  \/ Len(s) = 0
        \/ Len(p.ip) + Len(p.fp) > 0 /\ AllDigits(p.ip) /\ AllDigits(p.fp)

\* Number(x) of a capacity text, in thousandths (digits past the third decimal
\* are dropped)
NumberMilli(s) ==
    LET p   == NumParts(s)
        mag == 1000 * DigitsVal(p.ip) + DigitsVal(SubSeq(p.fp \o <<"0", "0", "0">>, 1, 3))
    IN  IF p.neg THEN 0 - mag ELSE mag

\* safeNum of a text cell (or of undefined): a non-finite Number(x) is 0
safeNum(x) == IF x = Undefined \/ ~IsNumText(x) THEN 0 ELSE NumberMilli(x)

\* round2 of a quantity held in thousandths: Math.round(n * 100) / 100, where
\* Math.round takes a half up
round2(n) == ((n + 5) \div 10) * 10

RECURSIVE SumOver(_, _)
\* sumSources(obj, keys)
SumOver(obj, keys) ==
    IF Len(keys) = 0 THEN 0 ELSE obj[Head(keys)] + SumOver(obj, Tail(keys))

sumSources(obj) == SumOver(obj, SOURCES)

\* parseCSVSimple at the grain of lines and trimmed fields: a text is a sequence
\* of lines, a line a sequence of fields, a blank line has no field.  The first
\* non-blank line is the header, the others are the rows, in file order.
parseCSVSimple(text) ==
    LET lines == SelectSeq(text, LAMBDA l : Len(l) > 0)
    IN  IF Len(lines) = 0 THEN [header |-> <<>>, rows |-> <<>>]
        ELSE [header |-> Head(lines), rows |-> Tail(lines)]

\* the numbers [mm, yyyy] of monthKey.split("/").map(Number)
MonthParts(a) ==
    LET parts == Split(a, "/")
    IN  [m |-> NumberInt(parts[1]), y |-> NumberInt(parts[2])]

compareMonthKey(a, b) ==
    LET pa == MonthParts(a)
        pb == MonthParts(b)
    IN  IF pa.y # pb.y THEN pa.y - pb.y ELSE pa.m - pb.m

RECURSIVE MinusLoop(_, _, _)
\* the while loop of minusMonths
MinusLoop(m, y, left) ==
    IF left > 0
    THEN IF m - 1 <= 0 THEN MinusLoop(12, y - 1, left - 1) ELSE MinusLoop(m - 1, y, left - 1)
    ELSE [m |-> m, y |-> y]

minusMonths(monthKey, monthsBack) ==
    LET p == MonthParts(monthKey)
        r == MinusLoop(p.m, p.y, monthsBack)
    IN  PadStart(ToStr(r.m), 2, "0") \o <<"/">> \o ToStr(r.y)

RECURSIVE InsertMonth(_, _)
\* x put into the sorted s after every element that does not compare higher
InsertMonth(s, x) ==
    IF Len(s) = 0 THEN <<x>>
    ELSE IF compareMonthKey(s[Len(s)], x) <= 0 THEN Append(s, x)
    ELSE Append(InsertMonth(SubSeq(s, 1, Len(s) - 1), x), s[Len(s)])

RECURSIVE SortMonths(_)
\* options.slice().sort(compareMonthKey): Array.prototype.sort is stable
SortMonths(options) ==
    IF Len(options) = 0 THEN <<>>
    ELSE InsertMonth(SortMonths(SubSeq(options, 1, Len(options) - 1)), options[Len(options)])

\* the clamp taking the first option that fits, not the last
clampToEarliestFit(target, options) ==
    LET sorted == SortMonths(options)
        fit    == {i \in 1..Len(sorted) : compareMonthKey(sorted[i], target) <= 0}
    IN  IF Len(options) = 0 THEN target
        ELSE IF \E i \in 1..Len(options) : options[i] = target THEN target
        ELSE IF fit # {} THEN sorted[CHOOSE i \in fit : \A j \in fit : i <= j]
        ELSE sorted[1]

clampMonthKeyToOptions(target, options) ==
    LET sorted == SortMonths(options)
        fit    == {i \in 1..Len(sorted) : compareMonthKey(sorted[i], target) <= 0}
    IN  IF Len(options) = 0 THEN target
        ELSE IF \E i \in 1..Len(options) : options[i] = target THEN target
        ELSE IF fit # {} THEN sorted[CHOOSE i \in fit : \A j \in fit : j <= i]
        ELSE sorted[1]

-----------------------------------------------------------------------------
(* localStorage and JSON *)

RECURSIVE StripZeros(_)
StripZeros(s) ==
    IF Len(s) > 0 /\ s[Len(s)] = "0" THEN StripZeros(SubSeq(s, 1, Len(s) - 1)) ELSE s

\* the JSON text of a number held in thousandths: 7500 is 7.5, 210000 is 210
NumToText(n) ==
    LET mag  == IF n < 0 THEN 0 - n ELSE n
        frac == StripZeros(PadStart(NatToStr(mag % 1000), 3, "0"))
    IN  (IF n < 0 THEN <<"-">> ELSE <<>>) \o NatToStr(mag \div 1000)
            \o (IF Len(frac) = 0 THEN <<>> ELSE <<".">> \o frac)

\* what getItem can return: null, a text that is no JSON, or an object's text
NoItem == [kind |-> "none"]

CorruptItem == [kind |-> "corrupt"]

\* JSON.stringify of a Record<SourceKey, number>
JSONstringify(m) == [kind |-> "json", obj |-> [s \in DOMAIN m |-> NumToText(m[s])]]

\* the useState initializers of installed and plf: 0 for all, overridden from
\* the stored object when the item is there and parses
ReadStored(item) ==
    IF item.kind = "json"
    THEN [s \in SourceSet |-> safeNum(IF s \in DOMAIN item.obj THEN item.obj[s] ELSE Undefined)]
    ELSE [s \in SourceSet |-> 0]

ZeroMap == [s \in SourceSet |-> 0]

\* stores a session can start from: nothing stored, a damaged item, what an
\* earlier session wrote
StoredAtStart ==
    { [installed |-> NoItem, plf |-> NoItem],
      [installed |-> CorruptItem, plf |-> NoItem],
      [installed |-> JSONstringify(ZeroMap),
       plf       |-> JSONstringify([ZeroMap EXCEPT !["Coal"] = 60000])],
      [installed |-> JSONstringify([ZeroMap EXCEPT !["Wind"] = 45250]),
       plf       |-> JSONstringify([ZeroMap EXCEPT !["Wind"] = 30000])] }

-----------------------------------------------------------------------------
(* The resources the two fetches can answer with *)

BoundedSeqs(S, n) == UNION {[1..k -> S] : k \in 0..n}

\* /data/Capacity.csv: an HTTP failure, an empty text, a header alone, one row,
\* two rows, a header without the source names
CapacityResponses ==
    LET h1 == <<"Coal", "Solar">>
        h2 == <<"Region", "Coal">>
        r1 == << <<"2", "1", "0", ".", "5">>, <<"8", "1">> >>
        r2 == << <<"a", "l", "l">>, <<"9">> >>
    IN  { [ok |-> FALSE, text |-> <<>>],
          [ok |-> TRUE,  text |-> <<>>],
          [ok |-> TRUE,  text |-> <<h1>>],
          [ok |-> TRUE,  text |-> <<h1, r1>>],
          [ok |-> TRUE,  text |-> <<h2, <<>>, r2, r1>>] }

M_11_2022 == <<"1", "1", "/", "2", "0", "2", "2">>

M_01_2023 == <<"0", "1", "/", "2", "0", "2", "3">>

M_01_2024 == <<"0", "1", "/", "2", "0", "2", "4">>

M_12_2022 == <<"1", "2", "/", "2", "0", "2", "2">>

M_03_2023 == <<"0", "3", "/", "2", "0", "2", "3">>

M_06_2023 == <<"0", "6", "/", "2", "0", "2", "3">>

M_02_2024 == <<"0", "2", "/", "2", "0", "2", "4">>

M_13_2024 == <<"1", "3", "/", "2", "0", "2", "4">>

M_1_24 == <<"1", "/", "2", "4">>

\* data lines of /data/capacity.csv, as Month and Coal fields
HistoryLines ==
    { <<M_11_2022, <<"4", "8">>>>,
      <<M_01_2023, <<"5", "0">>>>,
      <<M_01_2024, <<"5", "5">>>>,
      <<M_01_2024, <<"6", "0", ".", "2", "5">>>>,
      <<M_13_2024, <<"7", "0">>>>,
      <<M_1_24, <<"8", "0">>>> }

\* /data/capacity.csv: an HTTP failure, an empty text, a header alone, a header
\* and up to MaxRows data lines, and the same file with a blank line, a short
\* line, another case of the Month header, or no Month header
HistoryResponses ==
    LET line == <<M_01_2023, <<"5", "0">>>>
    IN  { [ok |-> FALSE, text |-> <<>>],
          [ok |-> TRUE,  text |-> <<>>],
          [ok |-> TRUE,  text |-> << <<"Coal", "MONTH">>, <<<<"5", "0">>, M_01_2023>>, <<>>, <<<<"5", "1">>>> >>],
          [ok |-> TRUE,  text |-> << <<"Date", "Coal">>, line >>],
          [ok |-> TRUE,  text |-> << <<"Month", "Coal", "Solar">>,
                                     <<M_01_2023, <<"5", "0">>, <<"1", "0">>>>,
                                     <<M_01_2024, <<"5", "0", ".", "0", "0", "4">>,
                                                  <<"1", "0", ".", "0", "0", "4">>>> >>] }
        \cup { [ok |-> TRUE, text |-> << <<"Month", "Coal">> >> \o rows] :
                 rows \in BoundedSeqs(HistoryLines, MaxRows) }

\* the texts typed into a number input, and the sources edited
InputTexts == { <<"7", ".", "5">> }

EditedSources == {"Coal", "Wind"}

\* String.prototype.toLowerCase on the header names in use
ToLowerCase(h) ==
    CASE h = "Month" -> "month"
      [] h = "MONTH" -> "month"
      [] h = "Date"  -> "date"
      [] h = "Coal"  -> "coal"
      [] h = "Solar" -> "solar"
      [] h = "Region" -> "region"
      [] OTHER -> h

\* arr.findIndex(x => x === v): 0-based, -1 when there is none
FindIndex(arr, v) ==
    IF \E i \in 1..Len(arr) : arr[i] = v
    THEN (CHOOSE i \in 1..Len(arr) : arr[i] = v /\ \A j \in 1..(i - 1) : arr[j] # v) - 1
    ELSE -1

-----------------------------------------------------------------------------
(* The component: derived values of a render *)

\* /^\d{2}\/\d{4}$/.test(mk)
MonthRegexTest(mk) ==
    /\ Len(mk) = 7
    /\ IsDigit(mk[1]) /\ IsDigit(mk[2])
    /\ mk[3] = "/"
    /\ \A i \in 4..7 : IsDigit(mk[i])

RECURSIVE MonthsOf(_)
\* history.map(r => r.month).filter(Boolean)
MonthsOf(h) ==
    IF Len(h) = 0 THEN <<>>
    ELSE (IF Len(Head(h).month) > 0 THEN <<Head(h).month>> ELSE <<>>) \o MonthsOf(Tail(h))

\* history.map(r => r.month).filter(Boolean).sort(compareMonthKey)
monthOptionsOf(h) == SortMonths(MonthsOf(h))

monthOptions == monthOptionsOf(history)

\* the first option taken for the last
latestMonthFirst == IF Len(monthOptions) = 0 THEN <<>> ELSE monthOptions[1]

\* null is <<>> here: both are falsy where the source tests them
latestMonth == IF Len(monthOptions) = 0 THEN <<>> ELSE monthOptions[Len(monthOptions)]

defaultStartMonth ==
    IF Len(latestMonth) = 0 THEN <<>>
    ELSE clampMonthKeyToOptions(minusMonths(latestMonth, 12), monthOptions)

\* h.find(r => r.month === month) || null: the position in h of the row found,
\* 0 for null
FindRowIn(h, month) ==
    IF Len(month) > 0 /\ \E i \in 1..Len(h) : h[i].month = month
    THEN CHOOSE i \in 1..Len(h) :
             /\ h[i].month = month
             /\ \A j \in 1..(i - 1) : h[j].month # month
    ELSE 0

FindRow(month) == FindRowIn(history, month)

startRow == FindRow(startMonth)

endRow == FindRow(endMonth)

\* startTotals / endTotals of the row at position i of history: absent for
\* null, else the row's values and their sum
TotalsOf(i) ==
    IF i = 0 THEN [present |-> FALSE]
    ELSE [present |-> TRUE, per |-> history[i].values, total |-> sumSources(history[i].values)]

startTotals == TotalsOf(startRow)

endTotals == TotalsOf(endRow)

\* the total taken as the sum of the rounded per-source differences
netAdditionsSummed ==
    LET both == startTotals.present /\ endTotals.present
        out  == [s \in SourceSet |->
                    IF both THEN round2(endTotals.per[s] - startTotals.per[s]) ELSE 0]
    IN  [per |-> out, total |-> IF both THEN sumSources(out) ELSE 0]

\* netAdditions: per source round2(b - a), 0 when a side is absent; the total
\* round2(endTotals.total - startTotals.total), 0 when a side is absent
netAdditions ==
    LET both == startTotals.present /\ endTotals.present
        out  == [s \in SourceSet |->
                    IF both THEN round2(endTotals.per[s] - startTotals.per[s]) ELSE 0]
    IN  [per   |-> out,
         total |-> IF both THEN round2(endTotals.total - startTotals.total) ELSE 0]

\* the start selector with no option disabled
StartOptionNeverDisabled(m) == FALSE

\* the option m of the start selector is disabled
StartOptionDisabled(m) == IF Len(endMonth) > 0 THEN compareMonthKey(m, endMonth) > 0 ELSE FALSE

\* the option m of the end selector is disabled
EndOptionDisabled(m) == IF Len(startMonth) > 0 THEN compareMonthKey(m, startMonth) < 0 ELSE FALSE

-----------------------------------------------------------------------------
(* The component: the two loads *)

\* the test written with every() in place of some()
hasNonZeroLocalEvery(inst) == \A s \in SourceSet : inst[s] # 0

\* Object.values(installed).some(v => Number(v) !== 0)
hasNonZeroLocal(inst) == \E s \in SourceSet : inst[s] # 0

\* map[s] after header.forEach((h, i) => map[h] = row[i] ?? ""): the field under
\* the last column named s, undefined when no column is
CapacityCell(header, row, s) ==
    IF \E i \in 1..Len(header) : header[i] = s
    THEN LET i == CHOOSE k \in 1..Len(header) :
                      header[k] = s /\ \A j \in (k + 1)..Len(header) : header[j] # s
             c == At(row, i - 1)
         IN  IF c = Undefined THEN <<>> ELSE c
    ELSE Undefined

\* the body of loadCapacitySingleRow up to the test of cancelled: "throw" for
\* the catch branch, else `next`
CapacityResult(resp, inst) ==
    LET csv == parseCSVSimple(resp.text)
        row == IF Len(csv.rows) > 0 THEN csv.rows[1] ELSE <<>>
    IN  IF ~resp.ok THEN [kind |-> "throw"]
        ELSE IF Len(csv.header) = 0 \/ Len(csv.rows) = 0 THEN [kind |-> "throw"]
        ELSE [kind |-> "next",
              next |-> [s \in SourceSet |-> safeNum(CapacityCell(csv.header, row, s))]]

\* values of one retained row: the field under the first column named s, 0
\* when no column is
RowValues(header, row) ==
    [s \in SourceSet |->
        LET idx == FindIndex(header, s)
        IN  IF idx >= 0 THEN safeNum(At(row, idx)) ELSE 0]

\* the month field of a row: (row[monthIdx] || "").trim()
MonthField(row, monthIdx) ==
    LET c == At(row, monthIdx) IN IF c = Undefined THEN <<>> ELSE c

RECURSIVE InsertRow(_, _)
\* x put into the sorted s after every row that does not compare higher
InsertRow(s, x) ==
    IF Len(s) = 0 THEN <<x>>
    ELSE IF compareMonthKey(s[Len(s)].month, x.month) <= 0 THEN Append(s, x)
    ELSE Append(InsertRow(SubSeq(s, 1, Len(s) - 1), x), s[Len(s)])

RECURSIVE SortRows(_)
\* parsed.sort((a, b) => compareMonthKey(a.month, b.month)): stable
SortRows(parsed) ==
    IF Len(parsed) = 0 THEN <<>>
    ELSE InsertRow(SortRows(SubSeq(parsed, 1, Len(parsed) - 1)), parsed[Len(parsed)])

\* a row of the monthly CSV is kept
RowKept(row, monthIdx) == MonthRegexTest(MonthField(row, monthIdx))

RECURSIVE ParseRows(_, _, _)
\* the loop over rows of loadHistory: `parsed` before the sort
ParseRows(header, rows, monthIdx) ==
    IF Len(rows) = 0 THEN <<>>
    ELSE LET row == Head(rows)
             rest == ParseRows(header, Tail(rows), monthIdx)
         IN  IF RowKept(row, monthIdx)
             THEN <<[month |-> MonthField(row, monthIdx), values |-> RowValues(header, row)]>> \o rest
             ELSE rest

RECURSIVE MapLower(_)
MapLower(header) ==
    IF Len(header) = 0 THEN <<>> ELSE <<ToLowerCase(Head(header))>> \o MapLower(Tail(header))

\* loadHistory without the throw for a missing Month column
HistoryResultNoMonthCheck(resp) ==
    LET csv      == parseCSVSimple(resp.text)
        monthIdx == FindIndex(MapLower(csv.header), "month")
    IN  IF ~resp.ok THEN [kind |-> "throw"]
        ELSE IF Len(csv.header) = 0 \/ Len(csv.rows) = 0 THEN [kind |-> "throw"]
        ELSE [kind |-> "parsed", parsed |-> SortRows(ParseRows(csv.header, csv.rows, monthIdx))]

\* the body of loadHistory up to the test of cancelled: "throw" for the catch
\* branch, else `parsed` after the sort
HistoryResult(resp) ==
    LET csv      == parseCSVSimple(resp.text)
        monthIdx == FindIndex(MapLower(csv.header), "month")
    IN  IF ~resp.ok THEN [kind |-> "throw"]
        ELSE IF Len(csv.header) = 0 \/ Len(csv.rows) = 0 THEN [kind |-> "throw"]
        ELSE IF monthIdx = -1 THEN [kind |-> "throw"]
        ELSE [kind |-> "parsed", parsed |-> SortRows(ParseRows(csv.header, csv.rows, monthIdx))]

\* the two messages (their dash is written "-" here)
CAPACITY_MSG == "Capacity.csv not loaded - enter values manually."

HISTORY_MSG == "capacity.csv not loaded - please ensure /public/data/capacity.csv exists with Month (MM/YYYY) + source columns."

-----------------------------------------------------------------------------
(* The component: effects, handlers and completions *)

\* the effects, in the order the component declares them; React runs the
\* pending ones in this order after a render, before it handles anything else
EFFECTS ==
    <<"loadCapacity", "persistInstalled", "persistPlf", "loadHistory", "initDefaults", "enforce">>

EffectSet == {EFFECTS[i] : i \in 1..Len(EFFECTS)}

\* effect e is the next one to run
Runs(e) ==
    /\ mounted
    /\ e \in pending
    /\ \A i, j \in 1..Len(EFFECTS) : (EFFECTS[j] = e /\ i < j) => EFFECTS[i] \notin pending

\* no effect is pending: the render is settled
Idle == pending = {}

\* no helper is being applied on its own
NoCall == [fn |-> "none"]

Init ==
    /\ localStorage \in StoredAtStart
    /\ installed = ReadStored(localStorage.installed)
    /\ plf = ReadStored(localStorage.plf)
    /\ closureInstalled = installed
    /\ capacityCsvMissing = FALSE
    /\ capacityCsvMsg = Null
    /\ history = <<>>
    /\ historyError = Null
    /\ startMonth = <<>>
    /\ endMonth = <<>>
    /\ mounted = TRUE
    /\ capCancelled = FALSE
    /\ histCancelled = FALSE
    /\ capPc = "idle"
    /\ histPc = "idle"
    /\ pending = EffectSet
    /\ edits = 0
    /\ call = NoCall

\* the mount effect of Capacity.csv: load unless something stored is non-zero
EffLoadCapacity ==
    /\ Runs("loadCapacity")
    /\ capPc' = IF hasNonZeroLocal(closureInstalled) THEN "skipped" ELSE "fetching"
    /\ pending' = pending \ {"loadCapacity"}
    /\ UNCHANGED <<installed, plf, capacityCsvMissing, capacityCsvMsg, history, historyError,
                   startMonth, endMonth, localStorage, closureInstalled, mounted,
                   capCancelled, histCancelled, histPc, edits, call>>

\* localStorage.setItem(INSTALLED_KEY, JSON.stringify(installed)), in a store
\* that takes the write
EffPersistInstalled ==
    /\ Runs("persistInstalled")
    /\ localStorage' = [localStorage EXCEPT !.installed = JSONstringify(installed)]
    /\ pending' = pending \ {"persistInstalled"}
    /\ UNCHANGED <<installed, plf, capacityCsvMissing, capacityCsvMsg, history, historyError,
                   startMonth, endMonth, closureInstalled, mounted,
                   capCancelled, histCancelled, capPc, histPc, edits, call>>

EffPersistPlf ==
    /\ Runs("persistPlf")
    /\ localStorage' = [localStorage EXCEPT !.plf = JSONstringify(plf)]
    /\ pending' = pending \ {"persistPlf"}
    /\ UNCHANGED <<installed, plf, capacityCsvMissing, capacityCsvMsg, history, historyError,
                   startMonth, endMonth, closureInstalled, mounted,
                   capCancelled, histCancelled, capPc, histPc, edits, call>>

\* the mount effect of capacity.csv: setHistoryError(null) and the fetch
EffLoadHistory ==
    /\ Runs("loadHistory")
    /\ historyError' = Null
    /\ histPc' = "fetching"
    /\ pending' = pending \ {"loadHistory"}
    /\ UNCHANGED <<installed, plf, capacityCsvMissing, capacityCsvMsg, history,
                   startMonth, endMonth, localStorage, closureInstalled, mounted,
                   capCancelled, histCancelled, capPc, edits, call>>

\* the values the "initialize default start/end" effect sets
InitEnd ==
    IF Len(endMonth) > 0 THEN clampMonthKeyToOptions(endMonth, monthOptions)
    ELSE IF Len(latestMonth) > 0 THEN latestMonth
    ELSE monthOptions[Len(monthOptions)]

InitStart ==
    IF Len(startMonth) > 0 THEN clampMonthKeyToOptions(startMonth, monthOptions)
    ELSE IF Len(defaultStartMonth) > 0 THEN defaultStartMonth
    ELSE LET n == Len(monthOptions)
             c == At(monthOptions, IF n - 13 > 0 THEN n - 13 ELSE 0)
         IN  IF c # Undefined /\ Len(c) > 0 THEN c ELSE monthOptions[1]

EffInitDefaults ==
    /\ Runs("initDefaults")
    /\ IF Len(monthOptions) = 0
       THEN /\ pending' = pending \ {"initDefaults"}
            /\ UNCHANGED <<startMonth, endMonth>>
       ELSE /\ endMonth' = InitEnd
            /\ startMonth' = InitStart
            /\ pending' = (pending \ {"initDefaults"})
                 \cup (IF InitEnd # endMonth \/ InitStart # startMonth THEN {"enforce"} ELSE {})
    /\ UNCHANGED <<installed, plf, capacityCsvMissing, capacityCsvMsg, history, historyError,
                   localStorage, closureInstalled, mounted,
                   capCancelled, histCancelled, capPc, histPc, edits, call>>

\* the effect without its clamp
EnforcedStartKept == startMonth

\* the value the "Enforce Start <= End" effect leaves in startMonth
EnforcedStart ==
    IF Len(startMonth) = 0 \/ Len(endMonth) = 0 THEN startMonth
    ELSE IF compareMonthKey(startMonth, endMonth) > 0 THEN endMonth
    ELSE startMonth

EffEnforce ==
    /\ Runs("enforce")
    /\ startMonth' = EnforcedStart
    /\ pending' = (pending \ {"enforce"}) \cup (IF EnforcedStart # startMonth THEN {"enforce"} ELSE {})
    /\ UNCHANGED <<installed, plf, capacityCsvMissing, capacityCsvMsg, history, historyError,
                   endMonth, localStorage, closureInstalled, mounted,
                   capCancelled, histCancelled, capPc, histPc, edits, call>>

\* the results applied without the test of `cancelled`
CancelledIgnored(cancelled) == TRUE

\* the test `!cancelled` before the results of a load are applied
NotCancelled(cancelled) == ~cancelled

\* the catch branch without its message
CapacityCatchNoMsg == [missing |-> TRUE, msg |-> Null]

\* what the catch branch of loadCapacitySingleRow sets
CapacityCatch == [missing |-> TRUE, msg |-> CAPACITY_MSG]

\* loadCapacitySingleRow from the response to its end, given the closure's
\* `installed` and `cancelled` and the state it may replace: the position it
\* ends in and the state it leaves
loadCapacitySingleRow(resp, inst, cancelled, cur) ==
    LET r == CapacityResult(resp, inst)
    IN  IF r.kind = "throw"
        THEN IF NotCancelled(cancelled)
             THEN [pc |-> "failed", installed |-> cur.installed, set |-> FALSE,
                   missing |-> CapacityCatch.missing, msg |-> CapacityCatch.msg]
             ELSE [pc |-> "discarded", installed |-> cur.installed, set |-> FALSE,
                   missing |-> cur.missing, msg |-> cur.msg]
        ELSE IF NotCancelled(cancelled)
             THEN [pc |-> "applied", installed |-> r.next, set |-> TRUE,
                   missing |-> FALSE, msg |-> Null]
             ELSE [pc |-> "discarded", installed |-> cur.installed, set |-> FALSE,
                   missing |-> cur.missing, msg |-> cur.msg]

\* the fetch of Capacity.csv completes with resp and loadCapacitySingleRow runs
\* to its end
CapacityLoaded(resp) ==
    LET o == loadCapacitySingleRow(resp, closureInstalled, capCancelled,
                 [installed |-> installed, missing |-> capacityCsvMissing, msg |-> capacityCsvMsg])
    IN  /\ capPc' = o.pc
        /\ installed' = o.installed
        /\ capacityCsvMissing' = o.missing
        /\ capacityCsvMsg' = o.msg
        /\ pending' = pending \cup (IF o.set THEN {"persistInstalled"} ELSE {})
        /\ UNCHANGED <<plf, history, historyError, startMonth, endMonth, localStorage,
                       closureInstalled, mounted, capCancelled, histCancelled, histPc, edits, call>>

\* loadHistory from the response to its end, given `cancelled` and the state it
\* may replace: the position it ends in and the state it leaves
loadHistory(resp, cancelled, cur) ==
    LET r == HistoryResult(resp)
    IN  IF r.kind = "throw"
        THEN IF NotCancelled(cancelled)
             THEN [pc |-> "failed", history |-> <<>>, historyError |-> HISTORY_MSG, set |-> TRUE]
             ELSE [pc |-> "discarded", history |-> cur.history,
                   historyError |-> cur.historyError, set |-> FALSE]
        ELSE IF NotCancelled(cancelled)
             THEN [pc |-> "applied", history |-> r.parsed, historyError |-> Null, set |-> TRUE]
             ELSE [pc |-> "discarded", history |-> cur.history,
                   historyError |-> cur.historyError, set |-> FALSE]

\* the fetch of capacity.csv completes with resp and loadHistory runs to its end
HistoryLoaded(resp) ==
    LET o == loadHistory(resp, histCancelled, [history |-> history, historyError |-> historyError])
    IN  /\ histPc' = o.pc
        /\ history' = o.history
        /\ historyError' = o.historyError
        /\ pending' = pending \cup (IF o.set THEN {"initDefaults"} ELSE {})
        /\ UNCHANGED <<installed, plf, capacityCsvMissing, capacityCsvMsg, startMonth, endMonth,
                       localStorage, closureInstalled, mounted, capCancelled, histCancelled,
                       capPc, edits, call>>

\* the new mapping built from the defaults, not from prev
EditedFromDefaults(prev, s, text) == [ZeroMap EXCEPT ![s] = safeNum(text)]

\* the updater of both inputs: (prev) => ({ ...prev, [s]: v }), v = safeNum(value)
EditedMap(prev, s, text) == [prev EXCEPT ![s] = safeNum(text)]

\* onChange of the installed-capacity input of source s
EditInstalled(s, text) ==
    /\ mounted /\ Idle
    /\ edits < MaxEdits
    /\ edits' = edits + 1
    /\ installed' = EditedMap(installed, s, text)
    /\ pending' = pending \cup {"persistInstalled"}
    /\ UNCHANGED <<plf, capacityCsvMissing, capacityCsvMsg, history, historyError,
                   startMonth, endMonth, localStorage, closureInstalled, mounted,
                   capCancelled, histCancelled, capPc, histPc, call>>

\* onChange of the PLF input of source s
EditPlf(s, text) ==
    /\ mounted /\ Idle
    /\ edits < MaxEdits
    /\ edits' = edits + 1
    /\ plf' = EditedMap(plf, s, text)
    /\ pending' = pending \cup {"persistPlf"}
    /\ UNCHANGED <<installed, capacityCsvMissing, capacityCsvMsg, history, historyError,
                   startMonth, endMonth, localStorage, closureInstalled, mounted,
                   capCancelled, histCancelled, capPc, histPc, call>>

\* the values the user can pick in the start selector: the options not disabled
StartChoices == {monthOptions[i] : i \in {k \in 1..Len(monthOptions) : ~StartOptionDisabled(monthOptions[k])}}

\* the values the user can pick in the end selector
EndChoices == {monthOptions[i] : i \in {k \in 1..Len(monthOptions) : ~EndOptionDisabled(monthOptions[k])}}

\* onChange of the start selector: setStartMonth(e.target.value)
ChangeStart(m) ==
    /\ mounted /\ Idle
    /\ m # startMonth
    /\ startMonth' = m
    /\ pending' = pending \cup {"enforce"}
    /\ UNCHANGED <<installed, plf, capacityCsvMissing, capacityCsvMsg, history, historyError,
                   endMonth, localStorage, closureInstalled, mounted,
                   capCancelled, histCancelled, capPc, histPc, edits, call>>

\* onChange of the end selector: setEndMonth(e.target.value)
ChangeEnd(m) ==
    /\ mounted /\ Idle
    /\ m # endMonth
    /\ endMonth' = m
    /\ pending' = pending \cup {"enforce"}
    /\ UNCHANGED <<installed, plf, capacityCsvMissing, capacityCsvMsg, history, historyError,
                   startMonth, localStorage, closureInstalled, mounted,
                   capCancelled, histCancelled, capPc, histPc, edits, call>>

\* the fetch of Capacity.csv ends, with any of the responses
CapacityFetchDone ==
    /\ capPc = "fetching"
    /\ mounted => Idle
    /\ \E resp \in CapacityResponses : CapacityLoaded(resp)

\* the fetch of capacity.csv ends, with any of the responses
HistoryFetchDone ==
    /\ histPc = "fetching"
    /\ mounted => Idle
    /\ \E resp \in HistoryResponses : HistoryLoaded(resp)

\* the user types into an installed-capacity or a PLF input
InstalledInput ==
    /\ mounted /\ Idle /\ edits < MaxEdits
    /\ \E s \in EditedSources, text \in InputTexts : EditInstalled(s, text)

PlfInput ==
    /\ mounted /\ Idle /\ edits < MaxEdits
    /\ \E s \in EditedSources, text \in InputTexts : EditPlf(s, text)

\* the user picks an option of the start selector that is not disabled
StartSelect ==
    /\ mounted /\ Idle
    /\ \E m \in StartChoices : ChangeStart(m)

\* the user picks an option of the end selector that is not disabled
EndSelect ==
    /\ mounted /\ Idle
    /\ \E m \in EndChoices : ChangeEnd(m)

\* the component is unmounted: both effect cleanups set their `cancelled`
Teardown ==
    /\ mounted /\ Idle
    /\ mounted' = FALSE
    /\ capCancelled' = TRUE
    /\ histCancelled' = TRUE
    /\ UNCHANGED <<installed, plf, capacityCsvMissing, capacityCsvMsg, history, historyError,
                   startMonth, endMonth, localStorage, closureInstalled,
                   capPc, histPc, pending, edits, call>>

Next ==
    \/ EffLoadCapacity
    \/ EffPersistInstalled
    \/ EffPersistPlf
    \/ EffLoadHistory
    \/ EffInitDefaults
    \/ EffEnforce
    \/ CapacityFetchDone
    \/ HistoryFetchDone
    \/ InstalledInput
    \/ PlfInput
    \/ StartSelect
    \/ EndSelect
    \/ Teardown

Spec == Init /\ [][Next]_vars

\* a change event with the value of any option, disabled or not, as a script
\* dispatches it: the two onChange handlers test nothing
StartChangeEvent ==
    /\ mounted /\ Idle
    /\ \E i \in 1..Len(monthOptions) : ChangeStart(monthOptions[i])

EndChangeEvent ==
    /\ mounted /\ Idle
    /\ \E i \in 1..Len(monthOptions) : ChangeEnd(monthOptions[i])

NextEvents == Next \/ StartChangeEvent \/ EndChangeEvent

\* the component under scripted change events
SpecEvents == Init /\ [][NextEvents]_vars

-----------------------------------------------------------------------------
(* The helpers applied on their own, to every input of a bounded set *)

compVars == <<installed, plf, capacityCsvMissing, capacityCsvMsg, history, historyError,
              startMonth, endMonth, localStorage, closureInstalled, mounted,
              capCancelled, histCancelled, capPc, histPc, pending, edits>>

OptionMonths == {M_11_2022, M_01_2023, M_06_2023, M_01_2024}

TargetMonths == {M_11_2022, M_12_2022, M_03_2023, M_06_2023, M_02_2024}

ClampCalls ==
    { [fn |-> "clampMonthKeyToOptions", args |-> [target |-> tg, options |-> opts],
       done |-> FALSE, result |-> <<>>] :
        tg \in TargetMonths, opts \in BoundedSeqs(OptionMonths, MaxOptions) }

LoadHistoryCalls ==
    { [fn |-> "loadHistory", args |-> [resp |-> resp, cancelled |-> c],
       done |-> FALSE, result |-> <<>>] :
        resp \in HistoryResponses, c \in BOOLEAN }

InitFn ==
    /\ call \in ClampCalls \cup LoadHistoryCalls
    /\ localStorage = [installed |-> NoItem, plf |-> NoItem]
    /\ installed = ZeroMap
    /\ plf = ZeroMap
    /\ closureInstalled = ZeroMap
    /\ capacityCsvMissing = FALSE
    /\ capacityCsvMsg = Null
    /\ history = <<>>
    /\ historyError = Null
    /\ startMonth = <<>>
    /\ endMonth = <<>>
    /\ mounted = TRUE
    /\ capCancelled = FALSE
    /\ histCancelled = FALSE
    /\ capPc = "idle"
    /\ histPc = "idle"
    /\ pending = EffectSet
    /\ edits = 0

ApplyClamp ==
    /\ call.fn = "clampMonthKeyToOptions"
    /\ ~call.done
    /\ call' = [call EXCEPT !.done = TRUE,
                            !.result = clampMonthKeyToOptions(call.args.target, call.args.options)]
    /\ UNCHANGED compVars

\* loadHistory run from the state it finds: no history, no message
ApplyLoadHistory ==
    /\ call.fn = "loadHistory"
    /\ ~call.done
    /\ call' = [call EXCEPT !.done = TRUE,
                            !.result = loadHistory(call.args.resp, call.args.cancelled,
                                           [history |-> history, historyError |-> historyError])]
    /\ UNCHANGED compVars

NextFn == ApplyClamp \/ ApplyLoadHistory

SpecFn == InitFn /\ [][NextFn]_vars

-----------------------------------------------------------------------------
(* Properties *)

\* month-key order, year first and then month, on the numbers of the two keys
MonthLeq(a, b) ==
    LET pa == MonthParts(a)
        pb == MonthParts(b)
    IN  pa.y < pb.y \/ (pa.y = pb.y /\ pa.m <= pb.m)

\* C1: whenever startMonth and endMonth are both set, startMonth is not after
\* endMonth in month-key order, in every state the load, the defaults and the
\* user's picks in the two selectors lead to.
C1_StartNotAfterEnd ==
    (Len(startMonth) > 0 /\ Len(endMonth) > 0) => MonthLeq(startMonth, endMonth)

\* the user has picked another end month than the default
C1_Witness ==
    /\ Idle
    /\ Len(startMonth) > 0
    /\ Len(endMonth) > 0
    /\ endMonth # latestMonth

\* startMonth is after endMonth
StartAfterEnd == Len(startMonth) > 0 /\ Len(endMonth) > 0 /\ ~MonthLeq(startMonth, endMonth)

\* C2: when endMonth has been set to a month before startMonth, the enforcing
\* effect is the step that runs next; it sets startMonth to that endMonth and
\* leaves endMonth alone, and its re-run settles the render with both unchanged.
C2_StartForcedDownToEnd ==
    /\ [](StartAfterEnd => Runs("enforce"))
    /\ [][/\ StartAfterEnd => (startMonth' = endMonth /\ endMonth' = endMonth)
          /\ (~StartAfterEnd /\ pending = {"enforce"})
                => (Idle' /\ startMonth' = startMonth /\ endMonth' = endMonth)]_vars

\* endMonth has just been set before startMonth
C2_Witness == StartAfterEnd /\ startMonth = latestMonth /\ pending = {"enforce"}

\* something stored at startup was non-zero: the installed map of the first
\* render, which the mount effect's closure keeps
NonZeroAtStart == \E i \in 1..Len(SOURCES) : closureInstalled[SOURCES[i]] # 0

\* C3: with a non-zero stored value at startup the snapshot is never requested,
\* never applied and its message never shown; it is requested only when every
\* stored value is zero or absent.
C3_SnapshotOnlyWhenAllZero ==
    /\ NonZeroAtStart =>
         /\ capPc \in {"idle", "skipped"}
         /\ capacityCsvMsg = Null
         /\ capacityCsvMissing = FALSE
    /\ capPc \in {"fetching", "applied", "failed", "discarded"} => ~NonZeroAtStart

\* a session that started with a stored value has gone on: history loaded, an
\* input edited, and no snapshot was asked for
C3_Witness ==
    /\ NonZeroAtStart
    /\ capPc = "skipped"
    /\ histPc = "applied"
    /\ edits > 0
    /\ Idle

\* C4: after teardown no step, and so no completion of either load, changes
\* installed, history or either message.
C4_NoMutationAfterTeardown ==
    [][~mounted => UNCHANGED <<installed, history, capacityCsvMissing, capacityCsvMsg,
                               historyError>>]_vars

\* both loads completed after the teardown
C4_Witness == ~mounted /\ capPc = "discarded" /\ histPc = "discarded"

\* a month key of the data model: two digits 01-12, a slash, four digits
WellFormedMonthKey(mk) ==
    /\ Len(mk) = 7
    /\ mk[3] = "/"
    /\ \A i \in {1, 2, 4, 5, 6, 7} : IsDigit(mk[i])
    /\ DigitsVal(SubSeq(mk, 1, 2)) \in 1..12

\* C5: every month key of History, and so every month option, is a zero-padded
\* month 01-12 and a four-digit year; a row such as "13/2024" or "1/24" is not
\* in History.
C5_HistoryMonthsWellFormed ==
    /\ \A i \in 1..Len(history) : WellFormedMonthKey(history[i].month)
    /\ \A i \in 1..Len(monthOptions) : WellFormedMonthKey(monthOptions[i])

\* C8: a failed snapshot load leaves installed, plf and the store as they were
\* and shows the message; the failed position and the message then stay for
\* the rest of the session, through later edits, and no new load is started.
C8_SnapshotFailureIsTerminal ==
    [][/\ capPc' = "failed" => (capacityCsvMissing' = TRUE /\ capacityCsvMsg' = CAPACITY_MSG)
       /\ capPc = "failed" => capPc' = "failed"
       /\ (capPc = "fetching" /\ capPc' = "failed")
            => (installed' = installed /\ plf' = plf /\ localStorage' = localStorage)]_vars

\* the snapshot load has failed and the user has edited an input
C8_Witness ==
    /\ capPc = "failed"
    /\ mounted /\ Idle
    /\ edits > 0
    /\ capacityCsvMsg = CAPACITY_MSG

\* the months of a key counted from year 0
MonthIndex(k) == LET p == MonthParts(k) IN 12 * p.y + p.m - 1

\* the set of month options
OptionSet == {monthOptions[i] : i \in 1..Len(monthOptions)}

\* e is the latest option; s is the latest option not after 12 months before
\* e, or the earliest option when there is none
IsDefaultSelection(s, e) ==
    LET below == {o \in OptionSet : MonthIndex(o) <= MonthIndex(e) - 12}
    IN  /\ e \in OptionSet
        /\ \A o \in OptionSet : MonthLeq(o, e)
        /\ s \in OptionSet
        /\ IF below # {}
           THEN s \in below /\ \A o \in below : MonthLeq(o, s)
           ELSE \A o \in OptionSet : MonthLeq(s, o)

Called(fn) == call.fn = fn /\ call.done

\* the lines of a text that are not blank
NonBlank(text) == SelectSeq(text, LAMBDA l : Len(l) > 0)

\* the rows of the file that the load retains, in file order, before the sort
FileRows(resp) ==
    LET lines == NonBlank(resp.text)
    IN  ParseRows(Head(lines), Tail(lines), FindIndex(MapLower(Head(lines)), "month"))

\* the months of h are in ascending month-key order
SortedAscending(h) == \A i, j \in 1..Len(h) : i < j => MonthLeq(h[i].month, h[j].month)

RowsOfMonth(h, m) == SelectSeq(h, LAMBDA r : r.month = m)

MonthSetOf(h) == {h[i].month : i \in 1..Len(h)}

\* C6: after a successful load History is sorted, holds each month
\* key once, and the row found for a month carries the values of the last row
\* of that month in the file.
C6_UniqueLastWins ==
    (Called("loadHistory") /\ call.result.pc = "applied") =>
        LET h == call.result.history
            f == FileRows(call.args.resp)
        IN  /\ SortedAscending(h)
            /\ \A i, j \in 1..Len(h) : h[i].month = h[j].month => i = j
            /\ \A m \in MonthSetOf(f) :
                 LET rows == RowsOfMonth(f, m)
                 IN  h[FindRowIn(h, m)].values = rows[Len(rows)].values

\* the reasons for which a load of the monthly CSV fails: the HTTP status, no
\* line, no data line, no header field that is "month" whatever its case
HistoryFailure(resp) ==
    LET lines == NonBlank(resp.text)
    IN  \/ ~resp.ok
        \/ Len(lines) <= 1
        \/ \A i \in 1..Len(lines[1]) : ToLowerCase(lines[1][i]) # "month"

\* C7: a load that fails for one of these reasons, the component mounted, ends
\* with History empty and the history message set; any other load, dropped
\* rows or not, is applied and sets no message.
C7_HistoryFailure ==
    (Called("loadHistory") /\ ~call.args.cancelled) =>
        IF HistoryFailure(call.args.resp)
        THEN /\ call.result.pc = "failed"
             /\ call.result.history = <<>>
             /\ call.result.historyError = HISTORY_MSG
        ELSE /\ call.result.pc = "applied"
             /\ call.result.historyError = Null

\* a load that failed for the want of a Month column
C7_Witness ==
    /\ Called("loadHistory")
    /\ ~call.args.cancelled
    /\ call.args.resp.ok
    /\ Len(NonBlank(call.args.resp.text)) > 1
    /\ call.result.pc = "failed"
    /\ call.result.historyError = HISTORY_MSG

\* C10: clampMonthKeyToOptions returns the target when there is no option or
\* the target is an option; else the greatest option not after the target in
\* month-key order; else the smallest option.  With options, the result is one
\* of them.
C10_ClampToOptions ==
    Called("clampMonthKeyToOptions") =>
        LET tg   == call.args.target
            opts == {call.args.options[i] : i \in 1..Len(call.args.options)}
            fit  == {o \in opts : MonthLeq(o, tg)}
            r    == call.result
        IN  /\ opts = {} => r = tg
            /\ tg \in opts => r = tg
            /\ opts # {} => r \in opts
            /\ (tg \notin opts /\ fit # {}) => (r \in fit /\ \A o \in fit : MonthLeq(o, r))
            /\ (opts # {} /\ fit = {}) => \A o \in opts : MonthLeq(r, o)

\* a clamp to the nearest earlier option, two options being earlier
C10_Witness ==
    /\ Called("clampMonthKeyToOptions")
    /\ call.args.target = M_03_2023
    /\ call.args.options = <<M_01_2024, M_01_2023, M_11_2022>>
    /\ call.result = M_01_2023

\* the store holds m under item and the useState initializer reads m back
PersistedAs(item, m) == item = JSONstringify(m) /\ ReadStored(item) = m

\* C11: every change of installed or plf leaves the write of that mapping
\* pending; whenever the write of a mapping is not pending, the store holds
\* the full in-memory mapping and the initializer reads it back; an edit of
\* source s changes the entry of s in the edited mapping and nothing else in
\* either mapping.
C11_EditsPersisted ==
    /\ []("persistInstalled" \notin pending => PersistedAs(localStorage.installed, installed))
    /\ []("persistPlf" \notin pending => PersistedAs(localStorage.plf, plf))
    /\ [][/\ installed' # installed => "persistInstalled" \in pending'
          /\ plf' # plf => "persistPlf" \in pending'
          /\ \A s \in SourceSet, text \in InputTexts :
               /\ EditInstalled(s, text) =>
                    /\ plf' = plf
                    /\ installed'[s] = safeNum(text)
                    /\ \A o \in SourceSet \ {s} : installed'[o] = installed[o]
               /\ EditPlf(s, text) =>
                    /\ installed' = installed
                    /\ plf'[s] = safeNum(text)
                    /\ \A o \in SourceSet \ {s} : plf'[o] = plf[o]]_vars

\* an edit of one source has been written, next to a stored value of another
C11_Witness ==
    /\ Idle
    /\ edits > 0
    /\ \E s, o \in SourceSet :
         /\ s # o
         /\ installed[s] = 7500
         /\ installed[o] # 0
    /\ PersistedAs(localStorage.installed, installed)
    /\ localStorage.installed # JSONstringify(ZeroMap)

RECURSIVE SetSum(_, _)
\* the sum of f over the set S
SetSum(f, S) ==
    IF S = {} THEN 0
    ELSE LET x == CHOOSE y \in S : TRUE IN f[x] + SetSum(f, S \ {x})

\* History has a row for month m
HasRow(m) == \E i \in 1..Len(history) : history[i].month = m

\* the values the totals use for month m, a row being there
ValuesOf(m) == history[FindRow(m)].values

\* every value of v is a number of at most two decimals
TwoDecimals(v) == \A s \in SourceSet : v[s] % 10 = 0

\* C12: with a row for startMonth and a row for endMonth, the net addition of
\* every source is end - start rounded to 2 decimals and the total is the sum
\* of the per-source net additions; with a row absent, all of them are 0.
C12_TotalIsSumOfNetAdditions ==
    IF HasRow(startMonth) /\ HasRow(endMonth)
    THEN /\ \A s \in SourceSet :
              netAdditions.per[s] = round2(ValuesOf(endMonth)[s] - ValuesOf(startMonth)[s])
         /\ netAdditions.total = SetSum(netAdditions.per, SourceSet)
    ELSE /\ \A s \in SourceSet : netAdditions.per[s] = 0
         /\ netAdditions.total = 0

\* C12 as amended: the total is the sum of the end values minus the sum of the
\* start values, rounded to 2 decimals, which is the sum of the per-source net
\* additions when no value of the two rows has more than two decimals.
C12_NetAdditions ==
    IF HasRow(startMonth) /\ HasRow(endMonth)
    THEN LET a == ValuesOf(startMonth)
             b == ValuesOf(endMonth)
         IN  /\ \A s \in SourceSet : netAdditions.per[s] = round2(b[s] - a[s])
             /\ netAdditions.total = round2(SetSum(b, SourceSet) - SetSum(a, SourceSet))
             /\ (TwoDecimals(a) /\ TwoDecimals(b))
                  => netAdditions.total = SetSum(netAdditions.per, SourceSet)
    ELSE /\ \A s \in SourceSet : netAdditions.per[s] = 0
         /\ netAdditions.total = 0

\* Coal 50 in 01/2023 and 55 in 01/2024, selected: +5.00
C12_Witness ==
    /\ startMonth = M_01_2023
    /\ endMonth = M_01_2024
    /\ HasRow(startMonth) /\ HasRow(endMonth)
    /\ ValuesOf(startMonth)["Coal"] = 50000
    /\ ValuesOf(endMonth)["Coal"] = 55000
    /\ netAdditions.per["Coal"] = 5000
    /\ netAdditions.total = 5000

\* the sources whose installed value the user has changed since the mount, the
\* closure of the mount effect holding the first render's values
EditedSinceMount == {s \in SourceSet : installed[s] # closureInstalled[s]}

\* C13: when the snapshot load ends with success, every source the user edited
\* while it was in flight keeps the value the user entered.
C13_EditsSurviveSnapshot ==
    [][(capPc = "fetching" /\ capPc' = "applied")
          => \A s \in EditedSinceMount : installed'[s] = installed[s]]_vars

====
